---- MODULE Spec2Model ----
(***************************************************************************)
(* reqray: the call tree collector (src/src/internal.rs) as a state        *)
(* machine.  The four Layer hooks new_span, on_enter, on_exit and on_close *)
(* run on several threads; every hook is cut at the places where it takes  *)
(* the extensions guard of a span (extensions_mut), so one action is one   *)
(* critical section of the source.  The registry (span data, parent links, *)
(* the per-thread span stack) and the quanta clock are the host.           *)
(***************************************************************************)
EXTENDS Integers, Sequences, FiniteSets, TLC

Max(a, b) == IF a >= b THEN a ELSE b

\* ------------------------------------------------------------- bounds
Threads == {1, 2}
Callsites == {"f", "g"}
\* CallTreeCollectorBuilder::default().max_call_depth
DefaultMaxCallDepth == 10
\* SpecTree: the configured max_call_depth is any of MinCfgDepth..MaxCfgDepth
\* or the default; the other specifications configure MinCfgDepth or the
\* default.
MinCfgDepth == 0
MaxCfgDepth == 3
TreeMaxSpans == 4
MaxCloses == 2
\* Spec: one thread, spans entered and left like calls, mock clock.
MaxSpans == 3
MaxTime == 3
\* SpecFree: one thread, any span entered at any time, mock clock.
FreeMaxSpans == 3
FreeMaxTime == 1
\* SpecShared: two threads, the clock advances while hooks run.
SharedMaxSpans == 2
SharedMaxTime == 2
\* SpecGuards: spans.
GuardMaxSpans == 3
\* SpecLoose: spans, clock ticks.
LooseMaxSpans == 2
LooseMaxTime == 2
ReenterMaxSpans == 2
ReenterMaxStack == 3
ReenterMaxTime == 1

SpanIds ==
    1..Max(Max(Max(MaxSpans, TreeMaxSpans), Max(FreeMaxSpans, SharedMaxSpans)),
           Max(Max(GuardMaxSpans, LooseMaxSpans), ReenterMaxSpans))

VARIABLES
    max_call_depth, \* CallTreeCollector.max_call_depth
    clock,          \* the raw value of the (mock) clock
    nspans,         \* span ids the registry has handed out so far
    parent,         \* registry: span -> parent span, 0 for a root
    callsite,       \* registry: span -> metadata().callsite()
    life,           \* registry: "none", "new", "open", "closing", "closed"
    info,           \* extensions: span -> Option<SpanTimingInfo>
    pools,          \* extensions: span -> Option<CallPathPool>
    stack,          \* registry: thread -> the spans it has entered
    th,             \* thread -> the hook it runs: pc and locals
    finished,       \* what process_finished_call received, in order
    panicked,       \* "" or the message of the panic that ended the run
    wall,           \* history: span -> ticks while entered, summed over threads
    own,            \* history: span -> ticks while entered and no tracked child entered
    closedInfo,     \* history: span -> the SpanTimingInfo on_close removed
    closes,         \* history: span -> how often on_close was called for it
    guard,          \* extensions lock: span -> the thread holding its ExtensionsMut, 0 for none
    host            \* what the host does in this run (fixed by Init)

vars == <<max_call_depth, clock, nspans, parent, callsite, life, info, pools,
          stack, th, finished, panicked, wall, own, closedInfo, closes, guard,
          host>>

\* ------------------------------------------------------------ helpers
None == <<>>
Some(x) == <<x>>
IsSome(o) == Len(o) = 1
Unwrap(o) == o[1]

EmptyMap == <<>>
MapInsert(m, k, v) == (k :> v) @@ m
MapRemove(m, k) == [x \in DOMAIN m \ {k} |-> m[x]]

\* CallPathPool: pool[CallPathPoolId(idx)] is the (idx+1)-th element.
At(pool, idx) == pool[idx + 1]

delta(start, end) == IF end > start THEN end - start ELSE 0

\* Variant: the configured depth is taken as it is.
build_unclamped(cfg_depth) == cfg_depth

build_with_collector(cfg_depth) == Max(2, cfg_depth)

\* Variant: depths are counted from 1.
RootTimingDepthOne(cs) ==
    [parent_idx |-> None, depth |-> 1, call_count |-> 0, span_meta |-> cs,
     children |-> EmptyMap, sum_with_children |-> 0, sum_own |-> 0]

\* Lines 145-153: the pool's first entry.
RootTiming(cs) ==
    [parent_idx |-> None, depth |-> 0, call_count |-> 0, span_meta |-> cs,
     children |-> EmptyMap, sum_with_children |-> 0, sum_own |-> 0]

for_call_path_idx(idx) ==
    [call_path_idx |-> idx, sum_with_children |-> 0, sum_own |-> 0,
     per_thread |-> EmptyMap]

RECURSIVE from_root(_)
from_root(s) ==
    IF parent[s] = 0 THEN <<>> ELSE Append(from_root(parent[s]), parent[s])

RootOf(s) == IF parent[s] = 0 THEN s ELSE from_root(s)[1]

Idle == [pc |-> "idle", id |-> 0, ts |-> 0, idx |-> 0, taken |-> None]

Running == panicked = ""

InStack(t, s) == \E i \in 1..Len(stack[t]) : stack[t][i] = s

\* The thread's current span, 0 for none.
Top(st) == IF st = <<>> THEN 0 ELSE st[Len(st)]

\* span.extensions_mut(): thread t gets the write lock of x's extensions.
acquire(g, x, t) == [g EXCEPT ![x] = t]

\* Variant: the explicit drop of a guard is left out.
drop_forgotten(g, x) == g

\* std::mem::drop(extensions): the guard of x is released.
drop(g, x) == [g EXCEPT ![x] = 0]

\* Variant: a guard outlives the hook that took it.
scope_end_kept(g, t) == g

\* The hook returns: every guard thread t still holds goes out of scope.
scope_end(g, t) == [x \in SpanIds |-> IF g[x] = t THEN 0 ELSE g[x]]

\* The span whose extensions the next section of thread t's hook locks, 0 if
\* it locks none (the span lookup before it fails, or the hook just returns).
Needs(t) ==
    LET id == th[t].id IN
    CASE th[t].pc \in {"en_span", "ex_span"} -> IF life[id] = "none" THEN 0 ELSE id
      [] th[t].pc \in {"en_parent", "ex_parent"} -> parent[id]
      [] th[t].pc \in {"ns_root", "cl_root"} -> RootOf(id)
      [] th[t].pc = "ns_insert" -> id
      [] OTHER -> 0

\* Thread t can run its section under the guard of x: it took the guard in a
\* step of its own, or takes it with the section when the host does not
\* preempt a thread between the two.
Holds(t, x) ==
    IF x = 0 THEN TRUE ELSE guard[x] = (IF host.preempt THEN t ELSE 0)

\* The guards thread t holds while it runs the section under the guard of x.
Locked(t, x) == IF x = 0 THEN guard ELSE acquire(guard, x, t)

\* ---------------------------------------------------------------- Init
InitWith(h) ==
    /\ \E c \in h.cfg_depths :
          /\ max_call_depth = build_with_collector(c)
          /\ host = [h EXCEPT !.cfg_depths = {c}]
    /\ clock = 0
    /\ nspans = 0
    /\ parent = [s \in SpanIds |-> 0]
    /\ callsite = [s \in SpanIds |-> "f"]
    /\ life = [s \in SpanIds |-> "none"]
    /\ info = [s \in SpanIds |-> None]
    /\ pools = [s \in SpanIds |-> None]
    /\ stack = [t \in Threads |-> <<>>]
    /\ th = [t \in Threads |-> Idle]
    /\ finished = <<>>
    /\ panicked = ""
    /\ wall = [s \in SpanIds |-> 0]
    /\ own = [s \in SpanIds |-> 0]
    /\ closedInfo = [s \in SpanIds |-> None]
    /\ closes = [s \in SpanIds |-> 0]
    /\ guard = [s \in SpanIds |-> 0]

\* ---------------------------------------------------------------- clock
\* Thread t is between the clock sample that starts its stay in s (start,
\* line 226) and the one that ends it (end, line 248).
Measuring(t, s) == InStack(t, s) /\ ~(th[t].pc = "en_span" /\ th[t].id = s)

\* Thread t is between the sample taken when it enters a tracked child of s
\* (leave_parent, line 217) and the one taken when it has left that child
\* (enter_own, line 276).
ChildBusy(t, s) ==
    \E c \in SpanIds :
        /\ parent[c] = s
        /\ IsSome(info[c])
        /\ \/ InStack(t, c)
           \/ th[t].id = c /\ th[t].pc \in {"ex_span", "ex_parent"}

\* The clock advances (mock.increment, or real time passing); while a hook
\* runs only if the host lets time pass then.
Tick ==
    /\ Running
    /\ clock < host.max_time
    /\ host.mid_tick \/ \A t \in Threads : th[t].pc = "idle"
    /\ clock' = clock + 1
    /\ wall' = [s \in SpanIds |->
                  wall[s] + Cardinality({t \in Threads : Measuring(t, s)})]
    /\ own' = [s \in SpanIds |->
                 own[s] + Cardinality({t \in Threads :
                     Measuring(t, s) /\ ~ChildBusy(t, s)})]
    /\ UNCHANGED <<max_call_depth, nspans, parent, callsite, life, info, pools,
                   stack, th, finished, panicked, closedInfo, closes, guard, host>>

\* ------------------------------------------------------------- new_span
\* Variant: new_span allocates without looking at the children map.
pool_always_insert(pool, pidx, cs, max_depth) ==
    LET new_idx == Len(pool)
        new_depth == At(pool, pidx).depth + 1
    IN  IF new_depth >= max_depth
        THEN [tracked |-> FALSE, pool |-> pool, idx |-> 0]
        ELSE [tracked |-> TRUE,
              pool |-> Append(
                  [pool EXCEPT ![pidx + 1].children = MapInsert(@, cs, new_idx)],
                  [parent_idx |-> Some(pidx), depth |-> new_depth,
                   call_count |-> 0, span_meta |-> cs, children |-> EmptyMap,
                   sum_with_children |-> 0, sum_own |-> 0]),
              idx |-> new_idx]

\* Variant: new_span reuses any entry of the callsite, whatever its parent.
pool_find_by_callsite(pool, pidx, cs, max_depth) ==
    LET new_idx == Len(pool)
        new_depth == At(pool, pidx).depth + 1
        same == {i \in 1..Len(pool) : pool[i].span_meta = cs}
    IN  IF new_depth >= max_depth
        THEN [tracked |-> FALSE, pool |-> pool, idx |-> 0]
        ELSE IF same # {}
        THEN [tracked |-> TRUE, pool |-> pool,
              idx |-> (CHOOSE i \in same : \A j \in same : i <= j) - 1]
        ELSE [tracked |-> TRUE,
              pool |-> Append(
                  [pool EXCEPT ![pidx + 1].children = MapInsert(@, cs, new_idx)],
                  [parent_idx |-> Some(pidx), depth |-> new_depth,
                   call_count |-> 0, span_meta |-> cs, children |-> EmptyMap,
                   sum_with_children |-> 0, sum_own |-> 0]),
              idx |-> new_idx]

\* Variant: the depth cap lets depth max_call_depth through.
pool_cap_late(pool, pidx, cs, max_depth) ==
    LET new_idx == Len(pool)
        parent_call_path_timing == At(pool, pidx)
        new_depth == parent_call_path_timing.depth + 1
    IN  IF new_depth > max_depth
        THEN [tracked |-> FALSE, pool |-> pool, idx |-> 0]
        ELSE IF cs \in DOMAIN parent_call_path_timing.children
        THEN [tracked |-> TRUE, pool |-> pool,
              idx |-> parent_call_path_timing.children[cs]]
        ELSE [tracked |-> TRUE,
              pool |-> Append(
                  [pool EXCEPT ![pidx + 1].children = MapInsert(@, cs, new_idx)],
                  [parent_idx |-> Some(pidx), depth |-> new_depth,
                   call_count |-> 0, span_meta |-> cs, children |-> EmptyMap,
                   sum_with_children |-> 0, sum_own |-> 0]),
              idx |-> new_idx]

\* Variant: the id of a new entry is the length of the pool after the push.
pool_idx_past_end(pool, pidx, cs, max_depth) ==
    LET new_idx == Len(pool) + 1
        parent_call_path_timing == At(pool, pidx)
        new_depth == parent_call_path_timing.depth + 1
    IN  IF new_depth >= max_depth
        THEN [tracked |-> FALSE, pool |-> pool, idx |-> 0]
        ELSE IF cs \in DOMAIN parent_call_path_timing.children
        THEN [tracked |-> TRUE, pool |-> pool,
              idx |-> parent_call_path_timing.children[cs]]
        ELSE [tracked |-> TRUE,
              pool |-> Append(
                  [pool EXCEPT ![pidx + 1].children = MapInsert(@, cs, new_idx)],
                  [parent_idx |-> Some(pidx), depth |-> new_depth,
                   call_count |-> 0, span_meta |-> cs, children |-> EmptyMap,
                   sum_with_children |-> 0, sum_own |-> 0]),
              idx |-> new_idx]

\* Variant: new_span pushes the entry without naming it in the parent's
\* children map.
pool_child_unregistered(pool, pidx, cs, max_depth) ==
    LET new_idx == Len(pool)
        parent_call_path_timing == At(pool, pidx)
        new_depth == parent_call_path_timing.depth + 1
    IN  IF new_depth >= max_depth
        THEN [tracked |-> FALSE, pool |-> pool, idx |-> 0]
        ELSE IF cs \in DOMAIN parent_call_path_timing.children
        THEN [tracked |-> TRUE, pool |-> pool,
              idx |-> parent_call_path_timing.children[cs]]
        ELSE [tracked |-> TRUE,
              pool |-> Append(pool,
                  [parent_idx |-> Some(pidx), depth |-> new_depth,
                   call_count |-> 0, span_meta |-> cs, children |-> EmptyMap,
                   sum_with_children |-> 0, sum_own |-> 0]),
              idx |-> new_idx]

\* Variant: new_span counts the call, on_close only adds the sums.
pool_count_at_create(pool, pidx, cs, max_depth) ==
    LET new_idx == Len(pool)
        parent_call_path_timing == At(pool, pidx)
        new_depth == parent_call_path_timing.depth + 1
    IN  IF new_depth >= max_depth
        THEN [tracked |-> FALSE, pool |-> pool, idx |-> 0]
        ELSE IF cs \in DOMAIN parent_call_path_timing.children
        THEN [tracked |-> TRUE,
              pool |-> [pool EXCEPT
                  ![parent_call_path_timing.children[cs] + 1].call_count = @ + 1],
              idx |-> parent_call_path_timing.children[cs]]
        ELSE [tracked |-> TRUE,
              pool |-> Append(
                  [pool EXCEPT ![pidx + 1].children = MapInsert(@, cs, new_idx)],
                  [parent_idx |-> Some(pidx), depth |-> new_depth,
                   call_count |-> 1, span_meta |-> cs, children |-> EmptyMap,
                   sum_with_children |-> 0, sum_own |-> 0]),
              idx |-> new_idx]

\* Lines 180-207: under the root's guard, find or allocate the call path of a
\* span with callsite cs below the call path pidx.  tracked is FALSE when the
\* depth cap returns early.
pool_find_or_insert(pool, pidx, cs, max_depth) ==
    LET new_idx == Len(pool)
        parent_call_path_timing == At(pool, pidx)
        new_depth == parent_call_path_timing.depth + 1
    IN  IF new_depth >= max_depth
        THEN [tracked |-> FALSE, pool |-> pool, idx |-> 0]
        ELSE IF cs \in DOMAIN parent_call_path_timing.children
        THEN [tracked |-> TRUE, pool |-> pool,
              idx |-> parent_call_path_timing.children[cs]]
        ELSE [tracked |-> TRUE,
              pool |-> Append(
                  [pool EXCEPT ![pidx + 1].children = MapInsert(@, cs, new_idx)],
                  [parent_idx |-> Some(pidx), depth |-> new_depth,
                   call_count |-> 0, span_meta |-> cs, children |-> EmptyMap,
                   sum_with_children |-> 0, sum_own |-> 0]),
              idx |-> new_idx]

\* The section of new_span under the root's guard, for span id of thread t.
NewSpanPool(t, id, root, pidx, cs) ==
    IF ~IsSome(pools[root])
    THEN /\ panicked' = "new_span: unwrap on None pool"
         /\ UNCHANGED <<pools, th, guard>>
    ELSE LET r == pool_find_or_insert(Unwrap(pools[root]), pidx, cs, max_call_depth)
         IN  /\ pools' = [pools EXCEPT ![root] = Some(r.pool)]
             /\ th' = [th EXCEPT ![t] =
                         IF r.tracked
                         THEN [Idle EXCEPT !.pc = "ns_insert", !.id = id, !.idx = r.idx]
                         ELSE [Idle EXCEPT !.pc = "ns_return", !.id = id]]
             /\ guard' = IF r.tracked
                         THEN drop(Locked(t, root), root)
                         ELSE scope_end(Locked(t, root), t)
             /\ UNCHANGED panicked

\* new_span is called for a new span with parent p (0: a root) and callsite cs;
\* with it the first section: the root's inserts, or the parent's guard.
NewSpanCall(t, p, cs) ==
    /\ Running
    /\ th[t].pc = "idle"
    /\ t \in host.threads
    /\ nspans < host.max_spans
    /\ cs \in host.callsites
    /\ \/ /\ p = 0
          /\ Cardinality({r \in 1..nspans : parent[r] = 0}) < host.max_roots
          /\ host.nested => stack[t] = <<>>
       \/ /\ p \in 1..nspans
          /\ life[p] = "open"
          /\ host.nested => Top(stack[t]) = p
          /\ guard[p] = 0
    /\ LET id == nspans + 1 IN
       /\ nspans' = id
       /\ parent' = [parent EXCEPT ![id] = p]
       /\ callsite' = [callsite EXCEPT ![id] = cs]
       /\ IF p = 0
          THEN /\ pools' = [pools EXCEPT ![id] = Some(<<RootTiming(cs)>>)]
               /\ info' = [info EXCEPT ![id] = Some(for_call_path_idx(0))]
               /\ life' = [life EXCEPT ![id] = "open"]
               /\ UNCHANGED <<th, panicked, guard>>
          ELSE /\ life' = [life EXCEPT ![id] = "new"]
               /\ UNCHANGED info
               /\ IF ~IsSome(info[p])
                  THEN \* beyond the maximum tracing depth
                       /\ th' = [th EXCEPT ![t] = [Idle EXCEPT !.pc = "ns_return", !.id = id]]
                       /\ guard' = scope_end(Locked(t, p), t)
                       /\ UNCHANGED <<pools, panicked>>
                  ELSE LET pidx == Unwrap(info[p]).call_path_idx
                           root == IF parent[p] = 0 THEN p ELSE RootOf(p)
                       IN  IF root = p
                           THEN NewSpanPool(t, id, root, pidx, cs)
                           ELSE /\ th' = [th EXCEPT ![t] =
                                    [Idle EXCEPT !.pc = "ns_root", !.id = id, !.idx = pidx]]
                                /\ guard' = drop(Locked(t, p), p)
                                /\ UNCHANGED <<pools, panicked>>
    /\ UNCHANGED <<max_call_depth, clock, stack, finished, wall, own,
                   closedInfo, closes, host>>

\* The parent was not the root: its guard is dropped, the root's guard taken.
NewSpanRoot(t) ==
    /\ Running
    /\ th[t].pc = "ns_root"
    /\ Holds(t, Needs(t))
    /\ LET id == th[t].id IN
       NewSpanPool(t, id, RootOf(id), th[t].idx, callsite[id])
    /\ UNCHANGED <<max_call_depth, clock, nspans, parent, callsite, life, info,
                   stack, finished, wall, own, closedInfo, closes, host>>

\* The root's guard is dropped; the span's own extensions get the tracker.
NewSpanInsert(t) ==
    /\ Running
    /\ th[t].pc = "ns_insert"
    /\ Holds(t, Needs(t))
    /\ guard' = scope_end(Locked(t, th[t].id), t)
    /\ info' = [info EXCEPT ![th[t].id] = Some(for_call_path_idx(th[t].idx))]
    /\ life' = [life EXCEPT ![th[t].id] = "open"]
    /\ th' = [th EXCEPT ![t] = Idle]
    /\ UNCHANGED <<max_call_depth, clock, nspans, parent, callsite, pools,
                   stack, finished, panicked, wall, own, closedInfo, closes, host>>

\* new_span returns without a tracker (depth cap).
NewSpanReturn(t) ==
    /\ Running
    /\ th[t].pc = "ns_return"
    /\ guard' = scope_end(guard, t)
    /\ life' = [life EXCEPT ![th[t].id] = "open"]
    /\ th' = [th EXCEPT ![t] = Idle]
    /\ UNCHANGED <<max_call_depth, clock, nspans, parent, callsite, info, pools,
                   stack, finished, panicked, wall, own, closedInfo, closes, host>>

\* ------------------------------------------------------------- on_enter
\* Variant: a missing record is skipped, like per_thread.get(..) would.
index_or_skip(per_thread, T) == FALSE

\* per_thread[&thread] (lines 240 and 257): Index of a HashMap panics when
\* the key is missing.
index_panics(per_thread, T) == T \notin DOMAIN per_thread

\* Lines 222-228: the span's record of thread T gets start twice.
enter_span(timing_info, T, start) ==
    [timing_info EXCEPT !.per_thread =
        MapInsert(@, T, [last_enter |-> start, last_enter_own |-> start])]

\* Variant: on_enter also restarts the parent's own time at leave_parent.
enter_parent_resets(timing_info, T, leave_parent) ==
    [timing_info EXCEPT
        !.sum_own = @ + delta(timing_info.per_thread[T].last_enter_own, leave_parent),
        !.per_thread[T].last_enter_own = leave_parent]

\* Lines 239-242: the parent's own time up to leave_parent is added.
enter_parent(timing_info, T, leave_parent) ==
    [timing_info EXCEPT !.sum_own =
        @ + delta(timing_info.per_thread[T].last_enter_own, leave_parent)]

\* An enter like a call: on top of the parent, or a root on an empty stack.
EnterIsNested(t, s) == Top(stack[t]) = parent[s]

\* Whether the host calls on_enter(s) on thread t: an open span the thread
\* is not in already, or its current span once more (the registry marks the
\* new entry of the stack as a duplicate, lookup_current skips it and finds
\* the same span below), or (a structural violation) an id the registry
\* never handed out.
HostMayEnter(t, s) ==
    /\ t \in host.threads
    /\ Len(stack[t]) < host.max_stack
    /\ \/ /\ life[s] = "open"
          /\ IF InStack(t, s)
             THEN host.reenter /\ Top(stack[t]) = s
             ELSE host.nested => EnterIsNested(t, s)
       \/ host.misuse /\ s = nspans + 1 /\ life[s] = "none"

\* The registry pushes s on the thread's stack; on_enter samples leave_parent.
EnterCall(t, s) ==
    /\ Running
    /\ th[t].pc = "idle"
    /\ HostMayEnter(t, s)
    /\ stack' = [stack EXCEPT ![t] = Append(@, s)]
    /\ th' = [th EXCEPT ![t] = [Idle EXCEPT !.pc = "en_span", !.id = s, !.ts = clock]]
    /\ UNCHANGED <<max_call_depth, clock, nspans, parent, callsite, life, info,
                   pools, finished, panicked, wall, own, closedInfo, closes, guard,
                   host>>

\* Variant: on_enter goes on to the parent also for a span without tracker.
enter_continues_untracked(tracked, has_parent) == has_parent

\* Lines 221-236: on_enter goes on to the parent's section for a span with a
\* tracker and a parent; without tracker it returns (line 231).
enter_continues(tracked, has_parent) == tracked /\ has_parent

\* lookup_current and the section under the span's guard.
EnterSpan(t) ==
    /\ Running
    /\ th[t].pc = "en_span"
    /\ Holds(t, Needs(t))
    /\ LET id == th[t].id IN
       IF life[id] = "none"
       THEN /\ panicked' = "no span in new_span"
            /\ UNCHANGED <<info, th, guard>>
       ELSE /\ info' = IF IsSome(info[id])
                       THEN [info EXCEPT ![id] = Some(enter_span(Unwrap(@), t, clock))]
                       ELSE info \* completely ignore, do not update parent
            /\ th' = [th EXCEPT ![t] =
                        IF enter_continues(IsSome(info[id]), parent[id] # 0)
                        THEN [@ EXCEPT !.pc = "en_parent"] ELSE Idle]
            /\ guard' = IF enter_continues(IsSome(info[id]), parent[id] # 0)
                        THEN drop(Locked(t, id), id)
                        ELSE scope_end(Locked(t, id), t)
            /\ UNCHANGED panicked
    /\ UNCHANGED <<max_call_depth, clock, nspans, parent, callsite, life, pools,
                   stack, finished, wall, own, closedInfo, closes, host>>

\* The section under the parent's guard.
EnterParent(t) ==
    /\ Running
    /\ th[t].pc = "en_parent"
    /\ Holds(t, Needs(t))
    /\ LET p == parent[th[t].id] IN
       IF ~IsSome(info[p])
       THEN /\ th' = [th EXCEPT ![t] = Idle]
            /\ guard' = scope_end(Locked(t, p), t)
            /\ UNCHANGED <<info, panicked>>
       ELSE IF index_panics(Unwrap(info[p]).per_thread, t)
       THEN /\ panicked' = "on_enter: no per_thread entry in parent"
            /\ UNCHANGED <<info, th, guard>>
       ELSE /\ info' = IF t \in DOMAIN Unwrap(info[p]).per_thread
                       THEN [info EXCEPT ![p] = Some(enter_parent(Unwrap(@), t, th[t].ts))]
                       ELSE info
            /\ th' = [th EXCEPT ![t] = Idle]
            /\ guard' = scope_end(Locked(t, p), t)
            /\ UNCHANGED panicked
    /\ UNCHANGED <<max_call_depth, clock, nspans, parent, callsite, life, pools,
                   stack, finished, wall, own, closedInfo, closes, host>>

\* -------------------------------------------------------------- on_exit
\* Variant: on_exit keeps the last stay only.
exit_span_last_only(timing_info, T, end) ==
    [timing_info EXCEPT
        !.sum_with_children = delta(timing_info.per_thread[T].last_enter, end),
        !.sum_own = delta(timing_info.per_thread[T].last_enter_own, end),
        !.per_thread = MapRemove(@, T)]

\* Variant: on_exit leaves sum_own alone.
exit_span_wall_only(timing_info, T, end) ==
    [timing_info EXCEPT
        !.sum_with_children = @ + delta(timing_info.per_thread[T].last_enter, end),
        !.per_thread = MapRemove(@, T)]

\* Variant: on_exit adds nothing while another thread is still in the span.
exit_span_dedup(timing_info, T, end) ==
    LET per_thread == timing_info.per_thread[T]
        last == DOMAIN timing_info.per_thread = {T}
    IN  [timing_info EXCEPT
            !.sum_with_children = @ + (IF last THEN delta(per_thread.last_enter, end) ELSE 0),
            !.sum_own = @ + (IF last THEN delta(per_thread.last_enter_own, end) ELSE 0),
            !.per_thread = MapRemove(@, T)]

\* Variant: on_exit keeps the record of the thread.
exit_span_keeps_record(timing_info, T, end) ==
    LET per_thread == timing_info.per_thread[T] IN
    [timing_info EXCEPT
        !.sum_with_children = @ + delta(per_thread.last_enter, end),
        !.sum_own = @ + delta(per_thread.last_enter_own, end)]

\* Lines 257-266: both sums grow, the record of thread T is removed.
exit_span(timing_info, T, end) ==
    LET per_thread == timing_info.per_thread[T] IN
    [timing_info EXCEPT
        !.sum_with_children = @ + delta(per_thread.last_enter, end),
        !.sum_own = @ + delta(per_thread.last_enter_own, end),
        !.per_thread = MapRemove(@, T)]

\* Variant: on_exit does not restart the parent's own time.
exit_parent_skipped(timing_info, T, enter_own) == timing_info

\* Variant: on_exit restarts both timestamps of the parent.
exit_parent_restarts(timing_info, T, enter_own) ==
    IF T \in DOMAIN timing_info.per_thread
    THEN [timing_info EXCEPT
             !.per_thread[T] = [last_enter |-> enter_own, last_enter_own |-> enter_own]]
    ELSE timing_info

\* Variant: on_exit gives the parent a record of the thread if it has none.
exit_parent_inserts(timing_info, T, enter_own) ==
    IF T \in DOMAIN timing_info.per_thread
    THEN [timing_info EXCEPT !.per_thread[T].last_enter_own = enter_own]
    ELSE [timing_info EXCEPT !.per_thread =
             MapInsert(@, T, [last_enter |-> enter_own, last_enter_own |-> enter_own])]

\* Lines 277-282: entry(T).and_modify on the parent.
exit_parent(timing_info, T, enter_own) ==
    IF T \in DOMAIN timing_info.per_thread
    THEN [timing_info EXCEPT !.per_thread[T].last_enter_own = enter_own]
    ELSE timing_info

\* pop(id) of the registry's span stack: the last occurrence goes.
StackPop(st, s) ==
    LET i == CHOOSE k \in 1..Len(st) :
                 st[k] = s /\ \A j \in (k + 1)..Len(st) : st[j] # s
    IN  [j \in 1..(Len(st) - 1) |-> IF j < i THEN st[j] ELSE st[j + 1]]

HostMayExit(t, s) ==
    /\ t \in host.threads
    /\ \/ /\ InStack(t, s)
          /\ host.lifo => Top(stack[t]) = s
       \/ host.misuse /\ s = nspans + 1 /\ life[s] = "none"

\* The registry pops s; on_exit samples end.
ExitCall(t, s) ==
    /\ Running
    /\ th[t].pc = "idle"
    /\ HostMayExit(t, s)
    /\ stack' = [stack EXCEPT ![t] = IF InStack(t, s) THEN StackPop(@, s) ELSE @]
    /\ th' = [th EXCEPT ![t] = [Idle EXCEPT !.pc = "ex_span", !.id = s, !.ts = clock]]
    /\ UNCHANGED <<max_call_depth, clock, nspans, parent, callsite, life, info,
                   pools, finished, panicked, wall, own, closedInfo, closes, guard,
                   host>>

ExitSpan(t) ==
    /\ Running
    /\ th[t].pc = "ex_span"
    /\ Holds(t, Needs(t))
    /\ LET id == th[t].id IN
       IF life[id] = "none"
       THEN /\ panicked' = "on_exit: unwrap on None span"
            /\ UNCHANGED <<info, th, guard>>
       ELSE IF ~IsSome(info[id])
       THEN /\ th' = [th EXCEPT ![t] = Idle]
            /\ guard' = scope_end(Locked(t, id), t)
            /\ UNCHANGED <<info, panicked>>
       ELSE IF index_panics(Unwrap(info[id]).per_thread, t)
       THEN /\ panicked' = "on_exit: no per_thread entry"
            /\ UNCHANGED <<info, th, guard>>
       ELSE /\ info' = IF t \in DOMAIN Unwrap(info[id]).per_thread
                       THEN [info EXCEPT ![id] = Some(exit_span(Unwrap(@), t, th[t].ts))]
                       ELSE info
            /\ th' = [th EXCEPT ![t] =
                        IF parent[id] # 0 THEN [@ EXCEPT !.pc = "ex_parent"] ELSE Idle]
            /\ guard' = IF parent[id] # 0
                        THEN drop(Locked(t, id), id)
                        ELSE scope_end(Locked(t, id), t)
            /\ UNCHANGED panicked
    /\ UNCHANGED <<max_call_depth, clock, nspans, parent, callsite, life, pools,
                   stack, finished, wall, own, closedInfo, closes, host>>

ExitParent(t) ==
    /\ Running
    /\ th[t].pc = "ex_parent"
    /\ Holds(t, Needs(t))
    /\ LET p == parent[th[t].id] IN
       IF ~IsSome(info[p])
       THEN /\ panicked' = "parent has no SpanTimingInfo"
            /\ UNCHANGED <<info, th, guard>>
       ELSE /\ info' = [info EXCEPT ![p] = Some(exit_parent(Unwrap(@), t, clock))]
            /\ th' = [th EXCEPT ![t] = Idle]
            /\ guard' = scope_end(Locked(t, p), t)
            /\ UNCHANGED panicked
    /\ UNCHANGED <<max_call_depth, clock, nspans, parent, callsite, life, pools,
                   stack, finished, wall, own, closedInfo, closes, host>>

\* ------------------------------------------------------------- on_close
\* Variant: on_close drops the tracker's sums.
fold_skipped(pool, timing_info) == pool

\* Variant: on_close adds each sum to the other field.
fold_swapped(pool, timing_info) ==
    [pool EXCEPT ![timing_info.call_path_idx + 1] =
        [@ EXCEPT !.call_count = @ + 1,
                  !.sum_with_children = @ + timing_info.sum_own,
                  !.sum_own = @ + timing_info.sum_with_children]]

\* Variant: on_close overwrites the call path with the tracker's sums.
fold_overwrite(pool, timing_info) ==
    [pool EXCEPT ![timing_info.call_path_idx + 1] =
        [@ EXCEPT !.call_count = 1,
                  !.sum_with_children = timing_info.sum_with_children,
                  !.sum_own = timing_info.sum_own]]

\* Lines 307-310: the tracker's sums are folded into its call path.
fold(pool, timing_info) ==
    [pool EXCEPT ![timing_info.call_path_idx + 1] =
        [@ EXCEPT !.call_count = @ + 1,
                  !.sum_with_children = @ + timing_info.sum_with_children,
                  !.sum_own = @ + timing_info.sum_own]]

\* Variant: every close hands the pool off.
HandoffDueAlways(id) == TRUE

\* Variant: no close hands the pool off.
HandoffDueNever(id) == FALSE

\* Line 312: the pool is handed off when the closing span has no parent.
HandoffDue(id) == parent[id] = 0

\* Lines 304-318, under the guard of root: fold, and hand off at a root.
CloseFold(t, id, root, timing_info) ==
    IF ~IsSome(pools[root])
    THEN /\ panicked' = "no pool in root Span"
         /\ UNCHANGED <<pools, finished, life, th, guard>>
    ELSE LET pool == fold(Unwrap(pools[root]), timing_info) IN
         /\ IF HandoffDue(id)
            THEN /\ pools' = [pools EXCEPT ![root] = None]
                 /\ finished' = Append(finished, [root |-> root, pool |-> pool])
            ELSE /\ pools' = [pools EXCEPT ![root] = Some(pool)]
                 /\ UNCHANGED finished
         /\ life' = [life EXCEPT ![id] = "closed"]
         /\ th' = [th EXCEPT ![t] = Idle]
         /\ guard' = scope_end(Locked(t, root), t)
         /\ UNCHANGED panicked

\* Whether the host calls on_close(s): the last handle of an open span is
\* gone (it is entered nowhere, no hook runs on it, its children are closed);
\* or, structural violations, s was closed before or never created.
HostMayClose(s) ==
    \/ /\ life[s] = "open"
       /\ \A t \in Threads : ~InStack(t, s) /\ th[t].id # s
       /\ \A c \in SpanIds : parent[c] = s => life[c] \in {"none", "closed"}
    \/ host.misuse /\ life[s] = "closed" /\ closes[s] < host.max_closes
    \/ host.misuse /\ s = nspans + 1 /\ life[s] = "none"

\* ctx.span(&id) and the section under the span's guard; for a root the fold
\* and the handoff are under the same guard.  found: whether the registry
\* still knows a span that was closed before.
CloseCall(t, s, found) ==
    /\ Running
    /\ th[t].pc = "idle"
    /\ t \in host.threads
    /\ HostMayClose(s)
    /\ found \/ life[s] = "closed"
    /\ IF life[s] = "none" \/ ~found
       THEN /\ panicked' = "no span in close"
            /\ UNCHANGED <<info, pools, finished, life, th, closedInfo, guard>>
       ELSE /\ guard[s] = 0
            /\ IF ~IsSome(info[s])
               THEN /\ life' = [life EXCEPT ![s] = "closed"]
                    /\ guard' = scope_end(Locked(t, s), t)
                    /\ UNCHANGED <<info, pools, finished, th, panicked, closedInfo>>
               ELSE /\ info' = [info EXCEPT ![s] = None]
                    /\ closedInfo' = [closedInfo EXCEPT ![s] = info[s]]
                    /\ IF parent[s] = 0
                       THEN CloseFold(t, s, s, Unwrap(info[s]))
                       ELSE /\ life' = [life EXCEPT ![s] = "closing"]
                            /\ th' = [th EXCEPT ![t] =
                                        [Idle EXCEPT !.pc = "cl_root", !.id = s, !.taken = info[s]]]
                            /\ guard' = drop(Locked(t, s), s)
                            /\ UNCHANGED <<pools, finished, panicked>>
    /\ closes' = [closes EXCEPT ![s] = @ + 1]
    /\ UNCHANGED <<max_call_depth, clock, nspans, parent, callsite, stack,
                   wall, own, host>>

\* The span's guard is dropped, the root's guard taken.
CloseRoot(t) ==
    /\ Running
    /\ th[t].pc = "cl_root"
    /\ Holds(t, Needs(t))
    /\ CloseFold(t, th[t].id, RootOf(th[t].id), Unwrap(th[t].taken))
    /\ UNCHANGED <<max_call_depth, clock, nspans, parent, callsite, info, stack,
                   wall, own, closedInfo, closes, host>>

\* extensions_mut() as a step of its own: thread t waits until the lock of
\* the span its next section needs is free, and takes it.
Acquire(t) ==
    /\ Running
    /\ host.preempt
    /\ Needs(t) # 0
    /\ guard[Needs(t)] = 0
    /\ guard' = acquire(guard, Needs(t), t)
    /\ UNCHANGED <<max_call_depth, clock, nspans, parent, callsite, life, info,
                   pools, stack, th, finished, panicked, wall, own, closedInfo,
                   closes, host>>

\* What thread t does next in the hook it runs, once it has the guard.
Continue(t) ==
    \/ NewSpanRoot(t) \/ NewSpanInsert(t) \/ NewSpanReturn(t)
    \/ EnterSpan(t) \/ EnterParent(t)
    \/ ExitSpan(t) \/ ExitParent(t)
    \/ CloseRoot(t)

Next ==
    \/ Tick
    \/ \E t \in Threads, p \in {0} \cup SpanIds, cs \in Callsites : NewSpanCall(t, p, cs)
    \/ \E t \in Threads : NewSpanRoot(t)
    \/ \E t \in Threads : NewSpanInsert(t)
    \/ \E t \in Threads : NewSpanReturn(t)
    \/ \E t \in Threads, s \in SpanIds : EnterCall(t, s)
    \/ \E t \in Threads : EnterSpan(t)
    \/ \E t \in Threads : EnterParent(t)
    \/ \E t \in Threads, s \in SpanIds : ExitCall(t, s)
    \/ \E t \in Threads : ExitSpan(t)
    \/ \E t \in Threads : ExitParent(t)
    \/ \E t \in Threads, s \in SpanIds, found \in BOOLEAN : CloseCall(t, s, found)
    \/ \E t \in Threads : CloseRoot(t)

\* ------------------------------------------------------- specifications
\* What a host does: the threads that run hooks, how many spans and roots it
\* creates, how far the clock runs, how deep a thread enters, the callsites
\* in use and the depths the builder may be configured with (Init keeps the
\* one the run was given); mid_tick: the clock also advances while a hook
\* runs; nested: spans are created and entered like calls (the parent
\* is the thread's current span); lifo: a thread leaves its current span
\* first; misuse: the host breaks the structural contract (names unknown
\* spans, closes a span up to max_closes times).

\* Two threads creating and closing spans with explicit parents.
HostTree ==
    [threads |-> Threads, max_spans |-> TreeMaxSpans, max_time |-> 0,
     max_stack |-> 0, max_roots |-> TreeMaxSpans, callsites |-> Callsites,
     cfg_depths |-> (MinCfgDepth..MaxCfgDepth) \cup {DefaultMaxCallDepth},
     mid_tick |-> FALSE, preempt |-> FALSE, nested |-> FALSE, lifo |-> FALSE, misuse |-> TRUE,
     max_closes |-> MaxCloses, reenter |-> FALSE]

\* The host of the tests (collect_call_trees): one root invocation of
\* instrumented functions on one thread, the mock clock incremented between
\* hooks, the default depth or the smallest one.
HostSeq ==
    [threads |-> {1}, max_spans |-> MaxSpans, max_time |-> MaxTime,
     max_stack |-> MaxSpans, max_roots |-> 1, callsites |-> Callsites,
     cfg_depths |-> {MinCfgDepth, DefaultMaxCallDepth},
     mid_tick |-> FALSE, preempt |-> FALSE, nested |-> TRUE, lifo |-> TRUE, misuse |-> FALSE,
     max_closes |-> 1, reenter |-> FALSE]

\* One thread that enters any open span whatever its current span is (a
\* span with an explicit parent, an instrumented future polled inside another
\* span) and leaves its spans in LIFO order.
HostFree ==
    [threads |-> {1}, max_spans |-> FreeMaxSpans, max_time |-> FreeMaxTime,
     max_stack |-> FreeMaxSpans, max_roots |-> 1, callsites |-> Callsites,
     cfg_depths |-> {MinCfgDepth, DefaultMaxCallDepth},
     mid_tick |-> FALSE, preempt |-> FALSE, nested |-> FALSE, lifo |-> TRUE, misuse |-> FALSE,
     max_closes |-> 1, reenter |-> FALSE]

\* Two threads in one span and a span below it, the clock advancing at any
\* moment, also while hooks run.
HostShared ==
    [threads |-> Threads, max_spans |-> SharedMaxSpans, max_time |-> SharedMaxTime,
     max_stack |-> SharedMaxSpans, max_roots |-> 1, callsites |-> {"f"},
     cfg_depths |-> {DefaultMaxCallDepth},
     mid_tick |-> TRUE, preempt |-> FALSE, nested |-> TRUE, lifo |-> TRUE, misuse |-> FALSE,
     max_closes |-> 1, reenter |-> FALSE]

\* The host of the tests breaking the structural contract as well: it names
\* spans that were never created and closes a span again.
HostMisuse ==
    [threads |-> {1}, max_spans |-> FreeMaxSpans, max_time |-> FreeMaxTime,
     max_stack |-> FreeMaxSpans, max_roots |-> 1, callsites |-> Callsites,
     cfg_depths |-> {MinCfgDepth, DefaultMaxCallDepth},
     mid_tick |-> FALSE, preempt |-> FALSE, nested |-> TRUE, lifo |-> TRUE, misuse |-> TRUE,
     max_closes |-> MaxCloses, reenter |-> FALSE]

\* Two threads in the spans of one root, each preempted at any point of a
\* hook, also between taking a guard and using it.
HostGuards ==
    [threads |-> Threads, max_spans |-> GuardMaxSpans, max_time |-> 0,
     max_stack |-> GuardMaxSpans, max_roots |-> 1, callsites |-> {"f"},
     cfg_depths |-> {MinCfgDepth, DefaultMaxCallDepth},
     mid_tick |-> FALSE, preempt |-> TRUE, nested |-> TRUE, lifo |-> TRUE,
     misuse |-> FALSE, max_closes |-> 1, reenter |-> FALSE]

\* Two threads that enter any open span, whatever they are in (a child on a
\* thread its parent is not entered on), and leave their spans in any order.
HostLoose ==
    [threads |-> Threads, max_spans |-> LooseMaxSpans, max_time |-> LooseMaxTime,
     max_stack |-> LooseMaxSpans, max_roots |-> 1, callsites |-> {"f"},
     cfg_depths |-> {DefaultMaxCallDepth},
     mid_tick |-> FALSE, preempt |-> FALSE, nested |-> FALSE, lifo |-> FALSE,
     misuse |-> FALSE, max_closes |-> 1, reenter |-> FALSE]

\* Two threads that also enter their current span again before leaving it
\* (a second span.enter() guard on the same thread).
HostReenter ==
    [threads |-> Threads, max_spans |-> ReenterMaxSpans, max_time |-> ReenterMaxTime,
     max_stack |-> ReenterMaxStack, max_roots |-> 1, callsites |-> {"f"},
     cfg_depths |-> {DefaultMaxCallDepth},
     mid_tick |-> FALSE, preempt |-> FALSE, nested |-> TRUE, lifo |-> TRUE,
     misuse |-> FALSE, max_closes |-> 1, reenter |-> TRUE]

Init == InitWith(HostSeq)
InitTree == InitWith(HostTree)
InitFree == InitWith(HostFree)
InitShared == InitWith(HostShared)
InitMisuse == InitWith(HostMisuse)
InitGuards == InitWith(HostGuards)
InitLoose == InitWith(HostLoose)
InitReenter == InitWith(HostReenter)

\* new_span and on_close alone: the hooks that touch the pool.
NextTree ==
    \/ \E t \in Threads, p \in {0} \cup SpanIds, cs \in Callsites : NewSpanCall(t, p, cs)
    \/ \E t \in Threads : NewSpanRoot(t)
    \/ \E t \in Threads : NewSpanInsert(t)
    \/ \E t \in Threads : NewSpanReturn(t)
    \/ \E t \in Threads, s \in SpanIds, found \in BOOLEAN : CloseCall(t, s, found)
    \/ \E t \in Threads : CloseRoot(t)

\* The hooks a root and its children go through below the depth cap.
NextShared ==
    \/ Tick
    \/ \E t \in Threads, p \in {0} \cup SpanIds, cs \in Callsites : NewSpanCall(t, p, cs)
    \/ \E t \in Threads : NewSpanInsert(t)
    \/ \E t \in Threads, s \in SpanIds : EnterCall(t, s)
    \/ \E t \in Threads : EnterSpan(t)
    \/ \E t \in Threads : EnterParent(t)
    \/ \E t \in Threads, s \in SpanIds : ExitCall(t, s)
    \/ \E t \in Threads : ExitSpan(t)
    \/ \E t \in Threads : ExitParent(t)
    \/ \E t \in Threads, s \in SpanIds, found \in BOOLEAN : CloseCall(t, s, found)
    \/ \E t \in Threads : CloseRoot(t)

\* Every hook, each extensions_mut() a step of its own.
NextGuards ==
    \/ \E t \in Threads, p \in {0} \cup SpanIds, cs \in Callsites : NewSpanCall(t, p, cs)
    \/ \E t \in Threads, s \in SpanIds : EnterCall(t, s)
    \/ \E t \in Threads, s \in SpanIds : ExitCall(t, s)
    \/ \E t \in Threads, s \in SpanIds, found \in BOOLEAN : CloseCall(t, s, found)
    \/ \E t \in Threads : Acquire(t)
    \/ \E t \in Threads : Continue(t)

Spec == Init /\ [][Next]_vars
SpecTree == InitTree /\ [][NextTree]_vars
SpecFree == InitFree /\ [][Next]_vars
SpecShared == InitShared /\ [][NextShared]_vars
SpecMisuse == InitMisuse /\ [][Next]_vars
SpecLoose == InitLoose /\ [][NextShared]_vars
SpecReenter == InitReenter /\ [][NextShared]_vars
\* Fair scheduling: a thread that can go on in its hook does, and a thread
\* waiting for a lock that is free again and again gets it.
SpecGuards ==
    /\ InitGuards
    /\ [][NextGuards]_vars
    /\ \A t \in Threads : WF_vars(Continue(t)) /\ SF_vars(Acquire(t))

\* ------------------------------------------------------------ properties
\* Every pool: those in a root's extensions and those handed off.
AllPools ==
    {Unwrap(pools[s]) : s \in {r \in SpanIds : IsSome(pools[r])}}
        \cup {finished[i].pool : i \in 1..Len(finished)}

\* C1: for every sequence of create/enter/exit/close that respects the
\* structural invariant, overlapping siblings on one thread included, every
\* CallPathTiming of every pool has sum_own <= sum_with_children.
C1_OwnAtMostWithChildren ==
    \A pool \in AllPools : \A i \in 1..Len(pool) :
        pool[i].sum_own <= pool[i].sum_with_children

\* No hook is running: every tracker holds what its finished hooks left.
Quiescent == \A t \in Threads : th[t].pc = "idle"

Entered(s) == \E t \in Threads : InStack(t, s)

\* C2: the own time of a tracked span is exactly the time it was entered on
\* a thread while none of its tracked direct children was entered on that
\* thread: no such instant is left out, none is counted twice, whatever the
\* pattern of child enters and exits (overlapping siblings included).
C2_OwnTimeExact ==
    Quiescent =>
        \A s \in SpanIds :
            /\ IsSome(info[s]) /\ ~Entered(s) => Unwrap(info[s]).sum_own = own[s]
            /\ IsSome(closedInfo[s]) => Unwrap(closedInfo[s]).sum_own = own[s]

ClosedRoots == {s \in SpanIds : parent[s] = 0 /\ life[s] = "closed"}

FinishedRoots == {finished[i].root : i \in 1..Len(finished)}

\* C3: process_finished_call is invoked exactly once for each root that
\* closed and never for another span: the roots handed off are the closed
\* roots, none twice, so the number of handoffs is the number of closed
\* roots, whatever non-root spans closed and however often on_close ran.
C3_HandoffOncePerClosedRoot ==
    /\ FinishedRoots = ClosedRoots
    /\ Len(finished) = Cardinality(ClosedRoots)

\* A root and a span below it are closed, on_close ran a second time for the
\* root, and there was one handoff.
C3_Witness ==
    \E r \in SpanIds, c \in SpanIds :
        /\ parent[r] = 0 /\ parent[c] = r
        /\ life[r] = "closed" /\ life[c] = "closed"
        /\ closes[r] = 2
        /\ Len(finished) = 1

RECURSIVE TotalCalls(_)
TotalCalls(pool) ==
    IF pool = <<>> THEN 0
    ELSE pool[Len(pool)].call_count + TotalCalls(SubSeq(pool, 1, Len(pool) - 1))

\* The spans of the invocation rooted at r.
Invocation(r) == {s \in 1..nspans : RootOf(s) = r}

\* C4: the handoff of a root's pool comes after every fold for that root,
\* the root's own included (entry 0 has call_count >= 1, every span of the
\* invocation is closed with its tracker gone and folded, no fold is
\* pending); the pool left the root's storage in the close step that handed
\* it off; and what the processor received never changes: later steps only
\* append further handoffs.
C4_HandoffAfterAllFolds ==
    /\ [](\A i \in 1..Len(finished) :
            LET r == finished[i].root
                pool == finished[i].pool
            IN  /\ pool[1].call_count >= 1
                /\ pools[r] = None
                /\ \A s \in Invocation(r) :
                      /\ life[s] = "closed"
                      /\ info[s] = None
                      /\ \A t \in Threads : th[t].id # s
                /\ TotalCalls(pool) =
                      Cardinality({s \in Invocation(r) : IsSome(closedInfo[s])}))
    /\ [][SubSeq(finished', 1, Len(finished)) = finished]_vars

\* A pool was handed off after the folds of two spans below the root, and a
\* second invocation went on (and was handed off) after it.
C4_Witness ==
    /\ Len(finished) = 2
    /\ Len(finished[1].pool) = 2
    /\ finished[1].pool[2].call_count = 2

\* The sum of f over the spans of S.
RECURSIVE SumOver(_, _)
SumOver(S, f) ==
    IF S = {} THEN 0
    ELSE LET x == CHOOSE y \in S : TRUE IN f[x] + SumOver(S \ {x}, f)

\* Whether new_span gave s a tracker, and the tracker as its hooks left it.
Tracked(s) == IsSome(info[s]) \/ IsSome(closedInfo[s])

Tracker(s) == IF IsSome(info[s]) THEN Unwrap(info[s]) ELSE Unwrap(closedInfo[s])

Children(s) == {c \in 1..nspans : parent[c] = s}

TrackedChildren(s) == {c \in Children(s) : Tracked(c)}

\* C5: with a clock that advances only between hooks, a tracked parent
\* entered on one thread for wall time W around N >= 0 sequential tracked
\* child invocations of total busy time C accumulates sum_with_children = W
\* and sum_own = W - C, and these are the sums folded for it.
C5_ParentWallMinusChildren ==
    /\ Quiescent =>
          \A s \in 1..nspans :
              Tracked(s) /\ ~Entered(s) =>
                  /\ Tracker(s).sum_with_children = wall[s]
                  /\ Tracker(s).sum_own = wall[s] - SumOver(TrackedChildren(s), wall)
    /\ \A i \in 1..Len(finished) :
          LET r == finished[i].root
              root == finished[i].pool[1]
          IN  /\ root.sum_with_children = wall[r]
              /\ root.sum_own = wall[r] - SumOver(TrackedChildren(r), wall)

\* A root entered for 3 ticks around two sequential children of 1 tick each
\* was handed off with sum_own 1.
C5_Witness ==
    /\ Len(finished) = 1
    /\ LET r == finished[1].root IN
       /\ wall[r] = 3
       /\ Cardinality(TrackedChildren(r)) = 2
       /\ \A c \in TrackedChildren(r) : wall[c] = 1
       /\ finished[1].pool[1].sum_own = 1

\* C6: a root span without children, created, entered, exited after
\* duration D and closed, is handed off as a pool of exactly one entry with
\* call_count = 1 and sum_with_children = sum_own = D.
C6_SingleRoot ==
    \A i \in 1..Len(finished) :
        LET r == finished[i].root
            pool == finished[i].pool
        IN  Children(r) = {} =>
                /\ Len(pool) = 1
                /\ pool[1].call_count = 1
                /\ pool[1].sum_with_children = wall[r]
                /\ pool[1].sum_own = wall[r]

\* A root without children was handed off after D = 2.
C6_Witness ==
    /\ Len(finished) = 1
    /\ Children(finished[1].root) = {}
    /\ wall[finished[1].root] = 2
    /\ finished[1].pool[1].sum_own = 2

\* The callsites from the root down to span s.
Chain(s) == [i \in 1..Len(from_root(s)) |-> callsite[from_root(s)[i]]] \o <<callsite[s]>>

\* The callsites from entry 0 down to the i-th entry of a pool.
RECURSIVE PoolChain(_, _)
PoolChain(pool, i) ==
    IF pool[i].parent_idx = None THEN <<pool[i].span_meta>>
    ELSE Append(PoolChain(pool, Unwrap(pool[i].parent_idx) + 1), pool[i].span_meta)

ClosedWith == [s \in SpanIds |->
    IF IsSome(closedInfo[s]) THEN Unwrap(closedInfo[s]).sum_with_children ELSE 0]

ClosedOwn == [s \in SpanIds |->
    IF IsSome(closedInfo[s]) THEN Unwrap(closedInfo[s]).sum_own ELSE 0]

\* C7: all tracked spans on one call path fold into one CallPathTiming: in a
\* handed-off pool no two entries have the same call path, an entry's
\* call_count is the number of tracked spans created on its call path, and
\* its sums are the sums of what those spans accumulated.
C7_SamePathOneEntry ==
    \A k \in 1..Len(finished) :
        LET r == finished[k].root
            pool == finished[k].pool
        IN  \A i \in 1..Len(pool) :
                LET S == {s \in Invocation(r) :
                             Tracked(s) /\ Chain(s) = PoolChain(pool, i)}
                IN  /\ pool[i].call_count = Cardinality(S)
                    /\ pool[i].sum_with_children = SumOver(S, ClosedWith)
                    /\ pool[i].sum_own = SumOver(S, ClosedOwn)
                    /\ \A j \in 1..Len(pool) :
                          PoolChain(pool, j) = PoolChain(pool, i) => j = i

\* Two spans on the same call path below the root, 1 tick each, were folded
\* into one entry.
C7_Witness ==
    /\ Len(finished) = 1
    /\ Len(finished[1].pool) = 2
    /\ finished[1].pool[2].call_count = 2
    /\ finished[1].pool[2].sum_with_children = 2
    /\ finished[1].pool[2].sum_own = 2

\* new_span has chosen the call path of s: its tracker is inserted, or about
\* to be (the root's guard is dropped, the span's not yet taken).
Inserting(t, s) == th[t].pc = "ns_insert" /\ th[t].id = s

HasPath(s) == Tracked(s) \/ \E t \in Threads : Inserting(t, s)

PathOf(s) ==
    IF Tracked(s) THEN Tracker(s).call_path_idx
    ELSE th[CHOOSE t \in Threads : Inserting(t, s)].idx

\* C8: within one root invocation two tracked spans have the same
\* CallPathPoolId if and only if their callsite chains from the root are the
\* same, however the new_span calls of the threads interleave; a pool never
\* holds two entries for one call path, and while the pool is with its root
\* the entry of a span is the one of the span's chain.
C8_SameIdIffSameChain ==
    /\ \A a \in 1..nspans, b \in 1..nspans :
          HasPath(a) /\ HasPath(b) /\ RootOf(a) = RootOf(b) =>
              (PathOf(a) = PathOf(b) <=> Chain(a) = Chain(b))
    /\ \A pool \in AllPools : \A i \in 1..Len(pool), j \in 1..Len(pool) :
          PoolChain(pool, i) = PoolChain(pool, j) => i = j
    /\ \A s \in 1..nspans :
          HasPath(s) /\ IsSome(pools[RootOf(s)]) =>
              /\ PathOf(s) < Len(Unwrap(pools[RootOf(s)]))
              /\ PoolChain(Unwrap(pools[RootOf(s)]), PathOf(s) + 1) = Chain(s)

\* Both threads are inside new_span for two spans of the same callsite below
\* the same non-root parent, and both were given the same new call path.
C8_Witness ==
    /\ Inserting(1, th[1].id) /\ Inserting(2, th[2].id)
    /\ th[1].id # th[2].id
    /\ parent[th[1].id] = parent[th[2].id]
    /\ parent[parent[th[1].id]] # 0
    /\ callsite[th[1].id] = callsite[th[2].id]
    /\ th[1].idx = th[2].idx
    /\ th[1].idx = 2

\* C9: a tracked span entered on two threads before either exits pairs each
\* thread's enter with that thread's exit: once every thread has left, its
\* sum_with_children is the sum of the threads' stays and its sum_own the
\* sum of the threads' own stays, under every interleaving of the hooks of
\* the two threads.
C9_ThreadsAdditive ==
    Quiescent =>
        \A s \in 1..nspans :
            Tracked(s) /\ ~Entered(s) =>
                /\ Tracker(s).sum_with_children = wall[s]
                /\ Tracker(s).sum_own = own[s]
                /\ TrackedChildren(s) = {} => Tracker(s).sum_own = wall[s]

\* Both threads were in the span during the same tick: two ticks of stay
\* after one tick of the clock.
C9_Witness ==
    /\ Quiescent
    /\ clock = 1
    /\ \E s \in 1..nspans :
          /\ Tracked(s) /\ ~Entered(s)
          /\ wall[s] = 2
          /\ Tracker(s).sum_with_children = 2
          /\ Tracker(s).sum_own = 2

\* The depth the call path of s has or would have: the number of ancestors.
DepthOf(s) == Len(from_root(s))

\* new_span has returned for s.
Created(s) == life[s] \in {"open", "closing", "closed"}

\* C10: every pool entry has depth < max_call_depth; a span whose call path
\* would be at depth >= max_call_depth gets no tracker, no pool entry and no
\* place in a children map, nor does a descendant of an untracked span:
\* the entries of a pool are the call paths of tracked spans, and the
\* children maps name exactly the entries below an entry.
C10_DepthCap ==
    /\ \A pool \in AllPools : \A i \in 1..Len(pool) :
          /\ pool[i].depth < max_call_depth
          /\ pool[i].depth = Len(PoolChain(pool, i)) - 1
          /\ \A cs \in DOMAIN pool[i].children :
                /\ pool[i].children[cs] < Len(pool)
                /\ At(pool, pool[i].children[cs]).parent_idx = Some(i - 1)
                /\ At(pool, pool[i].children[cs]).span_meta = cs
          /\ i > 1 => pool[i].span_meta \in DOMAIN At(pool, Unwrap(pool[i].parent_idx)).children
    /\ \A s \in 1..nspans :
          /\ Created(s) => (Tracked(s) <=> DepthOf(s) < max_call_depth)
          /\ DepthOf(s) >= max_call_depth => ~HasPath(s)
          /\ parent[s] # 0 /\ Created(s) /\ ~Tracked(parent[s]) => ~Tracked(s)
    /\ \A r \in 1..nspans :
          IsSome(pools[r]) =>
              \A i \in 1..Len(Unwrap(pools[r])) :
                  \E s \in Invocation(r) : HasPath(s) /\ PathOf(s) = i - 1

\* With max_call_depth 2 a chain of four spans is open: the third is beyond
\* the cap, the fourth is below the untracked third, and the pool has the
\* two entries of the first two.
C10_Witness ==
    /\ max_call_depth = 2
    /\ \E s \in 1..nspans :
          /\ DepthOf(s) = 3
          /\ Created(s) /\ ~Tracked(s)
          /\ ~Tracked(parent[s]) /\ Created(parent[s])
          /\ Tracked(parent[parent[s]])
          /\ IsSome(pools[RootOf(s)])
          /\ Len(Unwrap(pools[RootOf(s)])) = 2

\* C11: the time spent in depth-capped descendants is recorded as if
\* inlined: a tracked span whose children are all untracked ends with
\* sum_own = sum_with_children, both the whole time it was entered, the
\* stays of its untracked children included.
C11_CappedTimeInlined ==
    Quiescent =>
        \A s \in 1..nspans :
            Tracked(s) /\ ~Entered(s) /\ TrackedChildren(s) = {} =>
                /\ Tracker(s).sum_own = Tracker(s).sum_with_children
                /\ Tracker(s).sum_with_children = wall[s]
                /\ \A c \in Children(s) : wall[c] <= Tracker(s).sum_own

\* With max_call_depth 2 a span at depth 1 was entered for 3 ticks, 2 of
\* them inside its untracked child, and was closed with both sums 3.
C11_Witness ==
    /\ Quiescent
    /\ \E s \in 1..nspans, c \in 1..nspans :
          /\ parent[c] = s /\ DepthOf(s) = 1
          /\ Created(c) /\ ~Tracked(c)
          /\ wall[c] = 2 /\ wall[s] = 3
          /\ IsSome(closedInfo[s])
          /\ Unwrap(closedInfo[s]).sum_own = 3
          /\ Unwrap(closedInfo[s]).sum_with_children = 3

Min(a, b) == IF a <= b THEN a ELSE b

\* The invocation rooted at r is a recursion: a chain of nested spans of one
\* callsite, new_span returned for each.
IsRecursion(r) ==
    \A s \in Invocation(r) :
        /\ Created(s)
        /\ Cardinality(Children(s)) <= 1
        /\ callsite[s] = callsite[r]

\* C12: a chain of N nested spans of the same callsite, root included, gives
\* exactly min(N, max_call_depth) pool entries, one per depth
\* 0 .. min(N, max_call_depth) - 1, each with call_count = 1 once the chain
\* is closed; the levels at depth >= max_call_depth add no entry.
C12_RecursionEntries ==
    /\ \A r \in 1..nspans :
          IsSome(pools[r]) /\ IsRecursion(r) =>
              LET pool == Unwrap(pools[r]) IN
              /\ Len(pool) = Min(Cardinality(Invocation(r)), max_call_depth)
              /\ \A i \in 1..Len(pool) : pool[i].depth = i - 1
    /\ \A k \in 1..Len(finished) :
          IsRecursion(finished[k].root) =>
              LET pool == finished[k].pool IN
              /\ Len(pool) = Min(Cardinality(Invocation(finished[k].root)),
                                 max_call_depth)
              /\ \A i \in 1..Len(pool) :
                    pool[i].depth = i - 1 /\ pool[i].call_count = 1

\* A recursion 4 levels deep was handed off with max_call_depth 3: three
\* entries.
C12_Witness ==
    /\ max_call_depth = 3
    /\ Len(finished) = 1
    /\ IsRecursion(finished[1].root)
    /\ Cardinality(Invocation(finished[1].root)) = 4
    /\ Len(finished[1].pool) = 3

\* CallTreeCollectorBuilder.max_call_depth as the run configured it.
Configured == CHOOSE c \in host.cfg_depths : TRUE

\* C13: the effective depth cap is max(2, configured max_call_depth), 10 by
\* default: whatever was configured, 0 and 1 included, the root and every
\* direct child of a root are tracked.
C13_EffectiveCap ==
    /\ max_call_depth = (IF Configured < 2 THEN 2 ELSE Configured)
    /\ Configured = DefaultMaxCallDepth => max_call_depth = 10
    /\ \A s \in 1..nspans :
          Created(s) /\ DepthOf(s) <= 1 => Tracked(s)

\* max_call_depth was configured as 0: a root and a span below it are
\* tracked, each with its own pool entry, the span below those is not.
C13_Witness ==
    /\ Configured = 0
    /\ \E r \in 1..nspans, c \in 1..nspans, g \in 1..nspans :
          /\ parent[r] = 0 /\ parent[c] = r /\ parent[g] = c
          /\ IsSome(info[r]) /\ IsSome(info[c])
          /\ Created(g) /\ ~Tracked(g)
          /\ IsSome(pools[r]) /\ Len(Unwrap(pools[r])) = 2

\* The spans a step works on: the one a hook is called for or goes on with.
ActingSpans ==
    {s \in SpanIds : closes'[s] # closes[s]}
        \cup {s \in SpanIds : nspans' # nspans /\ s = nspans'}
        \cup {th[t].id : t \in {u \in Threads : th'[u] # th[u] /\ th[u].id # 0}}
        \cup {th'[t].id : t \in {u \in Threads : th'[u] # th[u] /\ th'[u].id # 0}}

\* C14: the extensions of a span hold a CallPathPool if and only if the
\* span is a root that was created and is not closed yet, so non-root spans
\* never hold one and every root in flight has exactly its own; and a step
\* changes the pool of a root only for a span of that root's tree.
C14_OnePoolPerRootInFlight ==
    /\ [](\A s \in SpanIds :
            IsSome(pools[s]) <=>
                (s \in 1..nspans /\ parent[s] = 0 /\ life[s] = "open"))
    /\ [][\A r \in SpanIds :
              pools'[r] # pools[r] =>
                  /\ ActingSpans # {}
                  /\ \A s \in ActingSpans :
                        IF parent'[s] = 0 THEN s = r ELSE from_root(s)'[1] = r]_vars

\* Two roots are in flight, each with its pool, the first with a second
\* entry for a span below it; a third root is closed and holds none.
C14_Witness ==
    \E a \in 1..nspans, b \in 1..nspans, c \in 1..nspans, d \in 1..nspans :
        /\ parent[a] = 0 /\ parent[b] = 0 /\ parent[d] = 0 /\ parent[c] = a
        /\ a # b /\ a # d /\ b # d
        /\ life[d] = "closed" /\ pools[d] = None
        /\ life[c] = "open"
        /\ IsSome(pools[a]) /\ Len(Unwrap(pools[a])) = 2
        /\ IsSome(pools[b]) /\ Len(Unwrap(pools[b])) = 1

\* A created span that new_span left without tracker (depth cap).
Capped(s) == life[s] = "open" /\ ~IsSome(info[s])

\* Thread t runs the first section of on_enter or on_exit of s in this step.
LooksUp(t, s) ==
    /\ th[t].pc \in {"en_span", "ex_span"}
    /\ th[t].id = s
    /\ th'[t] # th[t] \/ panicked' # panicked

\* on_close(s) is called in this step.
Closes(s) == closes'[s] # closes[s]

\* The hook returns at once and leaves trackers, pools and handoffs alone.
SilentlyIgnored(t) ==
    /\ panicked' = ""
    /\ th'[t].pc = "idle"
    /\ UNCHANGED <<info, pools, finished>>

Fatal == panicked' # ""

\* C15 as stated: enter, exit or close of a depth-capped span is silently
\* ignored, while on a span that was never created, or whose tracker an
\* earlier close consumed, the hook aborts.
C15_ConsumedTrackerFatal ==
    [][\A s \in SpanIds :
          /\ \A t \in Threads :
                LooksUp(t, s) =>
                    /\ Capped(s) => SilentlyIgnored(t)
                    /\ life[s] = "none" => Fatal
          /\ Closes(s) =>
                /\ Capped(s) => \A t \in Threads : SilentlyIgnored(t)
                /\ life[s] = "none" => Fatal
                /\ life[s] = "closed" => Fatal]_vars

\* C15: enter, exit or close of a depth-capped span is silently ignored and
\* the same hooks abort on a span that was never created; a close of a span
\* that was closed before aborts only if the host no longer knows the span,
\* and is otherwise ignored like that of a capped span.
C15_AbsentSpanFatal ==
    [][\A s \in SpanIds :
          /\ \A t \in Threads :
                LooksUp(t, s) =>
                    /\ Capped(s) => SilentlyIgnored(t)
                    /\ life[s] = "none" => Fatal
          /\ Closes(s) =>
                /\ Capped(s) => \A t \in Threads : SilentlyIgnored(t)
                /\ life[s] = "none" => Fatal
                /\ life[s] = "closed" =>
                      \/ panicked' = "no span in close"
                      \/ \A t \in Threads : SilentlyIgnored(t)]_vars

\* A capped span was closed, a span was closed a second time, and no hook
\* aborted.
C15_Witness ==
    /\ Running
    /\ \E c \in SpanIds :
          parent[c] # 0 /\ life[c] = "closed" /\ ~IsSome(closedInfo[c])
    /\ \E s \in SpanIds : closes[s] >= 2

\* Thread t is inside a hook.
Pending(t) == th[t].pc # "idle"

\* Thread t waits for a guard another thread holds.
Waits(t) == Needs(t) # 0 /\ guard[Needs(t)] \notin {0, t}

\* C16: under fair scheduling every hook that was called returns (or the
\* run aborts) and every guard that was taken is released, with two threads
\* in hooks on the spans of one tree; in no state do all the threads that
\* are inside hooks wait for guards.
C16_HooksReturn ==
    /\ [](Running /\ (\E t \in Threads : Pending(t))
            => \E t \in Threads : Pending(t) /\ ~Waits(t))
    /\ \A t \in Threads : Pending(t) ~> (~Pending(t) \/ ~Running)
    /\ \A s \in SpanIds : guard[s] # 0 ~> (guard[s] = 0 \/ ~Running)

\* Both threads are inside hooks on spans of one tree, and one of them
\* waits for the guard the other holds.
C16_Witness ==
    /\ Running
    /\ \E t, u \in Threads :
          /\ t # u
          /\ Pending(t) /\ Pending(u)
          /\ Waits(t) /\ guard[Needs(t)] = u
          /\ th[t].id # th[u].id
          /\ RootOf(th[t].id) = RootOf(th[u].id)

\* The guards thread t holds.
HeldBy(t) == {x \in SpanIds : guard[x] = t}

\* C17: a thread holds the guard of at most one span, and only that of the
\* span the section it is about to run works on: the guard of the section
\* before is released by then.
C17_OneGuardAtATime ==
    \A t \in Threads :
        /\ Cardinality(HeldBy(t)) <= 1
        /\ HeldBy(t) \subseteq {Needs(t)}

\* In new_span for a span whose parent is not the root, a thread holds the
\* root's guard (the parent's was taken and dropped before); the other
\* thread holds the guard of another span.
C17_Witness ==
    /\ Running
    /\ \E t, u \in Threads :
          /\ t # u
          /\ th[t].pc = "ns_root"
          /\ parent[th[t].id] # RootOf(th[t].id)
          /\ HeldBy(t) = {RootOf(th[t].id)}
          /\ HeldBy(u) # {}

\* on_enter or on_exit of s is called on thread t in this step.
Calls(t, s) ==
    /\ th[t].pc = "idle"
    /\ th'[t].pc \in {"en_span", "ex_span"}
    /\ th'[t].id = s

\* C18: every step of on_enter, on_exit and on_close for a created span
\* without tracker leaves all trackers, all pools and the handoffs as they
\* are, and the hook returns after its first section (it never reaches the
\* parent's).
C18_UntrackedHooksChangeNothing ==
    [][\A s \in SpanIds :
          Capped(s) =>
              /\ \A t \in Threads :
                    /\ Calls(t, s) => UNCHANGED <<info, pools, finished>>
                    /\ LooksUp(t, s) =>
                          th'[t] = Idle /\ UNCHANGED <<info, pools, finished>>
              /\ Closes(s) => UNCHANGED <<info, pools, finished, th>>]_vars

\* A span without tracker below a tracked parent was entered while the
\* clock advanced, left and closed.
C18_Witness ==
    /\ Running
    /\ \E c \in SpanIds :
          /\ parent[c] # 0
          /\ IsSome(closedInfo[parent[c]]) \/ IsSome(info[parent[c]])
          /\ life[c] = "closed"
          /\ ~IsSome(closedInfo[c])
          /\ wall[c] > 0

\* The spans of root r's invocation whose on_close has folded their tracker
\* into the call path idx.
Folded(r, idx) ==
    {s \in Invocation(r) :
        /\ life[s] = "closed"
        /\ IsSome(closedInfo[s])
        /\ Unwrap(closedInfo[s]).call_path_idx = idx}

\* The numbers of a CallPathTiming that on_close adds to.
Stats(e) == <<e.call_count, e.sum_with_children, e.sum_own>>

\* on_close folds the tracker of s in this step.
FoldsNow(s) ==
    /\ life[s] # "closed"
    /\ life'[s] = "closed"
    /\ IsSome(closedInfo'[s])

\* A step of on_enter or on_exit.
EnterOrExitStep ==
    \/ stack' # stack
    \/ \E t \in Threads :
          /\ th[t].pc \in {"en_span", "en_parent", "ex_span", "ex_parent"}
          /\ th'[t] # th[t]

\* The pool of root r after the step, also when the step hands it off.
PoolAfter(r) ==
    IF IsSome(pools'[r]) THEN Unwrap(pools'[r])
    ELSE finished'[Len(finished')].pool

\* C19: the call_count and the sums of a pool entry are those of the spans
\* closed on its call path, whatever was created, entered or exited
\* meanwhile; no step of on_enter or on_exit changes a pool; a new entry is
\* appended with call_count 0 and zero sums; and the numbers of an entry
\* change only in the step in which on_close folds a span of that call path.
C19_PoolEntriesChangeOnlyInClose ==
    /\ [](\A r \in SpanIds : IsSome(pools[r]) =>
            LET pool == Unwrap(pools[r]) IN
            \A i \in 1..Len(pool) :
                /\ pool[i].call_count = Cardinality(Folded(r, i - 1))
                /\ pool[i].sum_with_children = SumOver(Folded(r, i - 1), ClosedWith)
                /\ pool[i].sum_own = SumOver(Folded(r, i - 1), ClosedOwn))
    /\ [][/\ EnterOrExitStep => UNCHANGED <<pools, finished>>
          /\ \A r \in SpanIds :
                /\ ~IsSome(pools[r]) /\ IsSome(pools'[r]) =>
                      /\ Len(Unwrap(pools'[r])) = 1
                      /\ Stats(Unwrap(pools'[r])[1]) = <<0, 0, 0>>
                /\ IsSome(pools[r]) /\ pools'[r] # pools[r] =>
                      LET a == Unwrap(pools[r])
                          b == PoolAfter(r)
                      IN  /\ Len(b) \in {Len(a), Len(a) + 1}
                          /\ Len(b) = Len(a) + 1 =>
                                /\ Stats(b[Len(b)]) = <<0, 0, 0>>
                                /\ \A s \in SpanIds : ~FoldsNow(s)
                          /\ \A i \in 1..Len(a) :
                                Stats(b[i]) # Stats(a[i]) =>
                                    \E s \in Invocation(r) :
                                        /\ FoldsNow(s)
                                        /\ Unwrap(closedInfo'[s]).call_path_idx = i - 1
                                        /\ b[i].call_count = a[i].call_count + 1]_vars

\* A root's pool with an entry that counts one closed span while a second
\* span of that call path was created, entered for a tick and exited, but
\* not closed.
C19_Witness ==
    /\ Running /\ Quiescent
    /\ \E r \in SpanIds, s \in SpanIds, u \in SpanIds :
          /\ IsSome(pools[r])
          /\ s # u /\ parent[s] = r /\ parent[u] = r
          /\ life[s] = "closed" /\ IsSome(closedInfo[s])
          /\ IsSome(info[u]) /\ life[u] = "open" /\ ~Entered(u)
          /\ Unwrap(info[u]).call_path_idx = Unwrap(closedInfo[s]).call_path_idx
          /\ Unwrap(info[u]).sum_with_children > 0
          /\ At(Unwrap(pools[r]), Unwrap(info[u]).call_path_idx).call_count = 1

\* What identifies the call path of a CallPathTiming.
Identity(e) == <<e.parent_idx, e.depth, e.span_meta>>

\* C20: while a root holds its pool, entry 0 is the root's call path
\* (no parent, depth 0, the root's callsite), and no step shortens the pool
\* or changes the parent, depth or metadata of an entry it already has (the
\* step that hands the pool off included).
C20_PoolAppendOnly ==
    /\ [](\A r \in SpanIds : IsSome(pools[r]) =>
            Identity(Unwrap(pools[r])[1]) = <<None, 0, callsite[r]>>)
    /\ [][\A r \in SpanIds : IsSome(pools[r]) =>
            LET a == Unwrap(pools[r])
                b == PoolAfter(r)
            IN  /\ Len(b) >= Len(a)
                /\ \A i \in 1..Len(a) : Identity(b[i]) = Identity(a[i])]_vars

\* A pool in flight that grew to three entries on two levels after a span
\* of its second entry was folded.
C20_Witness ==
    /\ Running
    /\ \E r \in SpanIds :
          /\ IsSome(pools[r])
          /\ LET pool == Unwrap(pools[r]) IN
             /\ Len(pool) >= 3
             /\ pool[2].call_count >= 1
             /\ pool[3].depth = 2

C22_EnterSetsStartAndParentOwn ==
    [][\A t \in Threads :
          LET s == th[t].id
              p == parent[s]
          IN  /\ th[t].pc = "en_span" /\ th'[t] # th[t] /\ IsSome(info[s]) =>
                    /\ th[t].ts <= clock
                    /\ info' = [info EXCEPT ![s] = Some(
                          [Unwrap(info[s]) EXCEPT !.per_thread =
                              [u \in DOMAIN Unwrap(info[s]).per_thread \cup {t} |->
                                  IF u = t
                                  THEN [last_enter |-> clock, last_enter_own |-> clock]
                                  ELSE Unwrap(info[s]).per_thread[u]]])]
              /\ th[t].pc = "en_parent" /\ th'[t] # th[t] /\ IsSome(info[p]) =>
                    LET timing_info == Unwrap(info[p]) IN
                    /\ info' = [info EXCEPT ![p] = Some(
                          [timing_info EXCEPT !.sum_own =
                              @ + delta(timing_info.per_thread[t].last_enter_own,
                                        th[t].ts)])]
                    /\ Unwrap(info'[p]).sum_with_children = timing_info.sum_with_children
                    /\ Unwrap(info'[p]).per_thread = timing_info.per_thread]_vars

\* A thread's on_enter of a tracked child has returned: the parent, entered
\* at 0, got the own time up to leave_parent = 1, and the child's record
\* holds start = 2.
C22_Witness ==
    /\ Running
    /\ \E t \in Threads, c \in SpanIds :
          /\ th[t].pc = "idle"
          /\ parent[c] # 0
          /\ IsSome(info[c]) /\ IsSome(info[parent[c]])
          /\ t \in DOMAIN Unwrap(info[c]).per_thread
          /\ t \in DOMAIN Unwrap(info[parent[c]]).per_thread
          /\ Unwrap(info[c]).per_thread[t] = [last_enter |-> 2, last_enter_own |-> 2]
          /\ Unwrap(info[parent[c]]).per_thread[t].last_enter_own = 0
          /\ Unwrap(info[parent[c]]).sum_own = 1

\* The threads that are in span s as far as its tracker is concerned: from
\* the section of on_enter under the span's guard to that of on_exit.
In(s) ==
    {t \in Threads :
        \/ Measuring(t, s)
        \/ th[t].pc = "ex_span" /\ th[t].id = s}

C24_ExitRestartsParentOwn ==
    [][\A t \in Threads :
          LET s == th[t].id
              p == parent[s]
          IN  /\ th[t].pc = "ex_span" /\ th'[t] # th[t] /\ p # 0 =>
                    info'[p] = info[p]
              /\ /\ th[t].pc = "ex_parent" /\ th'[t] # th[t]
                 /\ IsSome(info[p])
                 /\ t \in DOMAIN Unwrap(info[p]).per_thread
                 => LET timing_info == Unwrap(info[p])
                        after == Unwrap(info'[p])
                    IN  /\ th[t].ts <= clock
                        /\ after.per_thread[t].last_enter_own = clock
                        /\ after.per_thread[t].last_enter =
                              timing_info.per_thread[t].last_enter
                        /\ DOMAIN after.per_thread = DOMAIN timing_info.per_thread
                        /\ \A u \in DOMAIN timing_info.per_thread \ {t} :
                              after.per_thread[u] = timing_info.per_thread[u]
                        /\ after.sum_with_children = timing_info.sum_with_children
                        /\ after.sum_own = timing_info.sum_own
                        /\ after.call_path_idx = timing_info.call_path_idx
                        /\ \A q \in SpanIds : q # p => info'[q] = info[q]]_vars

\* A thread in the root since 0 has left a child it was in for one tick; the
\* root's own time restarts at enter_own = 2, its last_enter is still 0.
C24_Witness ==
    /\ Running
    /\ \E t \in Threads, c \in SpanIds :
          /\ th[t].pc = "idle"
          /\ parent[c] # 0
          /\ IsSome(info[c]) /\ IsSome(info[parent[c]])
          /\ DOMAIN Unwrap(info[c]).per_thread = {}
          /\ Unwrap(info[c]).sum_with_children = 1
          /\ t \in DOMAIN Unwrap(info[parent[c]]).per_thread
          /\ Unwrap(info[parent[c]]).per_thread[t] =
                [last_enter |-> 0, last_enter_own |-> 2]

\* C25: however often and on whichever threads a tracked span was entered
\* and exited before its close, the fold counts it once: the call_count of
\* its call path grows by 1 and sum_with_children by the ticks of all its
\* stays together; a span that was never entered adds 1 and no time.
C25_FoldsAsSingleCall ==
    [][\A s \in SpanIds :
          FoldsNow(s) =>
              LET k == Unwrap(closedInfo'[s]).call_path_idx + 1
                  a == Unwrap(pools[RootOf(s)])
                  b == PoolAfter(RootOf(s))
              IN  /\ b[k].call_count = a[k].call_count + 1
                  /\ b[k].sum_with_children = a[k].sum_with_children + wall[s]
                  /\ wall[s] = 0 => b[k].sum_own = a[k].sum_own]_vars

\* A handed-off root that counts one call with more time than the clock
\* has run: the stays of two threads, added up.
C25_Witness ==
    /\ Running
    /\ Len(finished) = 1
    /\ finished[1].pool[1].call_count = 1
    /\ finished[1].pool[1].sum_with_children > clock
    /\ finished[1].pool[1].sum_with_children = wall[finished[1].root]

\* C26: every pool, in a root's extensions or handed off, is a tree: an
\* entry i > 0 has a parent index p < i with depth(i) = depth(p) + 1; the
\* children map of entry p sends the callsite of i to i and no other
\* children map names i; the values of one children map are distinct ids
\* (its keys are distinct callsites, being the keys of a map).
C26_PoolIsTree ==
    \A pool \in AllPools :
        \A i \in 0..(Len(pool) - 1) :
            LET e == At(pool, i) IN
            /\ i > 0 =>
                  /\ IsSome(e.parent_idx)
                  /\ Unwrap(e.parent_idx) < i
                  /\ e.depth = At(pool, Unwrap(e.parent_idx)).depth + 1
                  /\ e.span_meta \in DOMAIN At(pool, Unwrap(e.parent_idx)).children
                  /\ At(pool, Unwrap(e.parent_idx)).children[e.span_meta] = i
                  /\ \A q \in 0..(Len(pool) - 1) :
                        \A cs \in DOMAIN At(pool, q).children :
                            At(pool, q).children[cs] = i =>
                                q = Unwrap(e.parent_idx) /\ cs = e.span_meta
            /\ \A c1 \in DOMAIN e.children, c2 \in DOMAIN e.children :
                  e.children[c1] = e.children[c2] => c1 = c2
            /\ \A cs \in DOMAIN e.children : e.children[cs] \in 1..(Len(pool) - 1)

\* A pool in flight with four entries on three levels: the root's entry has
\* two children, one of which has a child.
C26_Witness ==
    /\ Running
    /\ \E r \in SpanIds :
          /\ IsSome(pools[r])
          /\ LET pool == Unwrap(pools[r]) IN
             /\ Len(pool) = 4
             /\ DOMAIN pool[1].children = Callsites
             /\ \E i \in 2..4 : pool[i].depth = 2

\* The CallPathPoolIds the hooks hold for span s: the call path of its
\* tracker, the one new_span is about to store, the one on_close took.
IdsOf(s) ==
    {Unwrap(info[x]).call_path_idx : x \in {y \in {s} : IsSome(info[y])}}
        \cup {th[t].idx : t \in {u \in Threads :
                  th[u].id = s /\ th[u].pc \in {"ns_root", "ns_insert"}}}
        \cup {Unwrap(th[t].taken).call_path_idx : t \in {u \in Threads :
                  th[u].id = s /\ th[u].pc = "cl_root"}}

\* C27: every CallPathPoolId in use indexes the pool it is used with: while
\* the run has not aborted, for every span that holds an id (in its tracker
\* or in a hook under way) the pool of its root exists and is longer than
\* the id, and every parent index and children-map value of a pool is
\* smaller than the pool's length.
C27_PoolIdsValid ==
    /\ Running =>
          \A s \in 1..nspans :
              IdsOf(s) # {} =>
                  /\ IsSome(pools[RootOf(s)])
                  /\ \A idx \in IdsOf(s) : idx < Len(Unwrap(pools[RootOf(s)]))
    /\ \A pool \in AllPools :
          \A i \in 1..Len(pool) :
              /\ IsSome(pool[i].parent_idx) => Unwrap(pool[i].parent_idx) < Len(pool)
              /\ \A cs \in DOMAIN pool[i].children : pool[i].children[cs] < Len(pool)

\* Both threads are inside hooks with ids of one pool: one is about to
\* store the id of the last entry in a new tracker, the other is about to
\* fold a tracker it removed.
C27_Witness ==
    /\ Running
    /\ \E t \in Threads, u \in Threads :
          /\ th[t].pc = "ns_insert"
          /\ th[u].pc = "cl_root"
          /\ RootOf(th[t].id) = RootOf(th[u].id)
          /\ th[t].idx = Len(Unwrap(pools[RootOf(th[t].id)])) - 1
          /\ th[t].idx >= 2

\* C28: while a non-root span has a tracker (or on_close holds the one it
\* removed), its parent has a tracker and its root holds the pool; on_exit
\* about to update the parent finds the parent's tracker; and neither
\* "parent has no SpanTimingInfo" nor "no pool in root Span" ever aborts
\* the run of a host that closes children before parents.
C28_ParentTrackedRootHoldsPool ==
    /\ \A s \in 1..nspans :
          (parent[s] # 0 /\ IsSome(info[s])) =>
              /\ IsSome(info[parent[s]])
              /\ IsSome(pools[RootOf(s)])
    /\ \A t \in Threads :
          /\ th[t].pc = "ex_parent" => IsSome(info[parent[th[t].id]])
          /\ th[t].pc = "cl_root" => IsSome(pools[RootOf(th[t].id)])
    /\ panicked \notin {"parent has no SpanTimingInfo", "no pool in root Span"}

\* A child was entered, left (its parent updated) and closed (folded into
\* the root's pool) while the root is open and entered.
C28_Witness ==
    /\ Running
    /\ \E s \in 1..nspans :
          /\ parent[s] # 0
          /\ life[s] = "closed"
          /\ IsSome(closedInfo[s])
          /\ Unwrap(closedInfo[s]).sum_with_children > 0
          /\ life[RootOf(s)] = "open"
          /\ IsSome(pools[RootOf(s)])
          /\ At(Unwrap(pools[RootOf(s)]), 1).call_count = 1
          /\ \E t \in Threads : InStack(t, RootOf(s))

\* Thread t is in the parent's section of on_enter, the parent has a tracker
\* and no record of t.
EnterLacksParentRecord(t) ==
    /\ th[t].pc = "en_parent"
    /\ IsSome(info[parent[th[t].id]])
    /\ t \notin DOMAIN Unwrap(info[parent[th[t].id]]).per_thread

\* A step in which no host call, no tick and no hook that returns happens.
HookAborts ==
    /\ th' = th /\ stack' = stack /\ clock' = clock /\ nspans' = nspans
    /\ life' = life /\ info' = info /\ pools' = pools

\* C29: on_enter of a tracked span whose tracked parent has no record of the
\* entering thread never returns and never touches the parent: the thread
\* stays in the hook, the parent's sums stay as they are for it, and the
\* hook's step aborts the run with the panic of the missing key.
C29_EnterAbortsWithoutParentRecord ==
    /\ [][\A t \in Threads :
            EnterLacksParentRecord(t) =>
                /\ th'[t] = th[t]
                /\ HookAborts => panicked' = "on_enter: no per_thread entry in parent"]_vars
    /\ [](panicked = "on_enter: no per_thread entry in parent" =>
            \E t \in Threads : EnterLacksParentRecord(t))

\* The run aborted in on_enter of a child entered on a thread its parent is
\* entered on by the other thread only; the child's own record was written.
C29_Witness ==
    /\ panicked = "on_enter: no per_thread entry in parent"
    /\ \E t \in Threads, u \in Threads :
          /\ EnterLacksParentRecord(t)
          /\ u # t
          /\ u \in DOMAIN Unwrap(info[parent[th[t].id]]).per_thread
          /\ t \in DOMAIN Unwrap(info[th[t].id]).per_thread

\* Thread t is in the span's section of on_exit, the span has a tracker and
\* no record of t.
ExitLacksRecord(t) ==
    /\ th[t].pc = "ex_span"
    /\ life[th[t].id] # "none"
    /\ IsSome(info[th[t].id])
    /\ t \notin DOMAIN Unwrap(info[th[t].id]).per_thread

\* How often span s is on the stack of thread t.
Entries(t, s) == Cardinality({i \in 1..Len(stack[t]) : stack[t][i] = s})

\* C30: on_exit of a tracked span that has no record of the exiting thread
\* never returns: the thread stays in the hook and the hook's step aborts
\* the run with the panic of the missing key (unless on_enter of another
\* thread aborts it first).  A thread that enters a span
\* it is in already overwrites its record with the new start and adds
\* nothing to the sums; its next exit removes the record while the thread
\* is still in the span; so the exit after that finds no record.
C30_ExitAbortsWithoutRecord ==
    /\ [][\A t \in Threads :
            /\ ExitLacksRecord(t) =>
                  /\ th'[t] = th[t]
                  /\ (HookAborts /\ \A u \in Threads : ~EnterLacksParentRecord(u))
                        => panicked' = "on_exit: no per_thread entry"
            /\ \A s \in 1..nspans :
                  /\ ( /\ th[t].pc = "en_span" /\ th[t].id = s
                       /\ th'[t].pc # "en_span"
                       /\ IsSome(info[s]) /\ t \in DOMAIN Unwrap(info[s]).per_thread )
                     => /\ Unwrap(info'[s]).per_thread[t] =
                              [last_enter |-> clock, last_enter_own |-> clock]
                        /\ Unwrap(info'[s]).sum_with_children = Unwrap(info[s]).sum_with_children
                        /\ Unwrap(info'[s]).sum_own = Unwrap(info[s]).sum_own
                  /\ ( /\ th[t].pc = "ex_span" /\ th[t].id = s
                       /\ th'[t].pc # "ex_span"
                       /\ IsSome(info[s]) )
                     => t \notin DOMAIN Unwrap(info'[s]).per_thread]_vars
    /\ [](panicked = "on_exit: no per_thread entry" =>
            \E t \in Threads : ExitLacksRecord(t))

\* A span was entered twice on one thread and left twice: the first exit
\* added the time since the second enter and removed the record, the second
\* exit aborted the run.
C30_Witness ==
    /\ panicked = "on_exit: no per_thread entry"
    /\ \E t \in Threads :
          /\ ExitLacksRecord(t)
          /\ Entries(t, th[t].id) = 0
          /\ Unwrap(info[th[t].id]).sum_with_children > 0
          /\ th[t].ts > 0

====
